---- MODULE Spec2Model ----
(***************************************************************************)
(* In-process transport backend of ipc-channel                             *)
(* (src/platform/inprocess/mod.rs): the channel primitive built on an      *)
(* unbounded crossbeam queue, the one-shot rendezvous server with its      *)
(* process-wide registry, the receiver set and the opaque transit          *)
(* endpoint.                                                               *)
(*                                                                         *)
(* Every OsIpcSender, OsIpcReceiver and OsOpaqueIpcChannel object the      *)
(* program ever creates gets an entry in a table; the entry records who    *)
(* owns the object now.  An Option<T> is modelled as a sequence of length  *)
(* at most one (<<>> is None, <<x>> is Some(x)).                           *)
(***************************************************************************)
EXTENDS Integers, Sequences, FiniteSets, TLC

\* ------------------------------------------------------------------ bounds
\* calls of channel()
MaxChannels == 2
\* calls of OsIpcSender::clone
MaxClones == 1
\* calls of OsIpcReceiver::consume
MaxConsumes == 1
\* calls of OsIpcSender::send
MaxSends == 3
\* endpoints carried by one message
MaxPorts == 2
\* calls of OsIpcSender::send on the channel a one-shot server bootstraps
MaxBootSends == 2
\* calls of OsIpcSender::connect
MaxConnects == 2
\* calls of OsIpcReceiverSet::add
MaxAdds == 2

\* ------------------------------------------------------------------ values
Chan == 1..(MaxChannels + 1)

\* the names connect is called with: 1 is the name OsIpcOneShotServer::new
\* returned, no server is ever published under the name 0
Names == {0, 1}

\* the (bytes, shared memory regions) a caller passes to send; a shared
\* memory region is the sequence of its bytes
Payloads ==
    { [data |-> <<1>>, shmem |-> <<>>],
      [data |-> <<2>>, shmem |-> << <<7, 7>> >>] }

\* the payload of the k-th send call where the callers' choice of payload is
\* left out: two calls in a row pass different payloads
PayloadAt(k) ==
    IF k % 2 = 0 THEN [data |-> <<1>>, shmem |-> <<>>]
    ELSE [data |-> <<2>>, shmem |-> << <<7, 7>> >>]

ChannelClosedError == "ChannelClosedError"
BrokenPipeError == "BrokenPipeError"
UnknownError == "UnknownError"
Panic == "panic"
Ok == "Ok"

VARIABLES
    nchan,             \* number of crossbeam channels created by channel()
    queue,             \* queue[c]: the messages buffered in channel c
    is_disconnected,   \* is_disconnected[c]: the channel's shared AtomicBool
    senders,           \* every OsIpcSender ever created
    receivers,         \* every OsIpcReceiver ever created
    opaques,           \* every OsOpaqueIpcChannel ever created
    ONE_SHOT_SERVERS,  \* the registry: name -> ServerRecord
    conn,              \* conn[n]: signals buffered in the record's conn channel
    poisoned,          \* the registry mutex was held by a panicking thread
    servers,           \* every OsIpcOneShotServer ever created, with the channel
                       \* new() made for it and the position of its accept
    connects,          \* connect calls between lookup and signal
    rset,              \* the OsIpcReceiverSet
    sent,              \* history: messages enqueued in channel c, in order
    rcvd,              \* history: messages handed out of channel c, in order
    ret,               \* history: the outcome of the last step of a call
    calls,             \* history: how often each bounded operation was called
    added              \* history: added[k + 1] is the handle and the channel of
                       \* the receiver the k-th call of add registered

heapVars == <<nchan, queue, is_disconnected, senders, receivers, opaques>>
serverVars == <<ONE_SHOT_SERVERS, conn, poisoned, servers, connects>>
histVars == <<sent, rcvd, ret, calls, added>>
vars == <<heapVars, serverVars, rset, histVars>>

\* ------------------------------------------------------------------ helpers
Some(x) == <<x>>
None == <<>>

Sender(h) == [kind |-> "Sender", id |-> h]
Receiver(r) == [kind |-> "Receiver", id |-> r]

ChannelMessage(d, c, s, h) == [data |-> d, ports |-> c, shmem |-> s, by |-> h]

Heap ==
    [senders |-> senders, receivers |-> receivers, opaques |-> opaques,
     queue |-> queue, is_disconnected |-> is_disconnected]

\* live OsIpcSender objects of channel c: the crossbeam sender count
LiveSenders(H, c) ==
    {h \in 1..Len(H.senders) :
        H.senders[h].chan = c /\ H.senders[h].owner # "dropped"}

SenderCount(c) == Cardinality(LiveSenders(Heap, c))

\* handles that hold the OsIpcReceiverInner of channel c (at most one)
Holders(H, c) == {r \in 1..Len(H.receivers) : H.receivers[r].inner = Some(c)}

DropSender(H, h) == [H EXCEPT !.senders[h].owner = "dropped"]

DropReceiverInner(H, r) ==
    LET rc == H.receivers[r]
    IN  [H EXCEPT
            !.receivers[r] = [inner |-> None, owner |-> "dropped"],
            !.is_disconnected =
                IF rc.inner # None THEN [@ EXCEPT ![rc.inner[1]] = TRUE] ELSE @]

DropChannel(H, p) ==
    IF p.kind = "Sender" THEN DropSender(H, p.id) ELSE DropReceiverInner(H, p.id)

RECURSIVE DropChannels(_, _)
DropChannels(H, ps) ==
    IF ps = <<>> THEN H ELSE DropChannels(DropChannel(H, Head(ps)), Tail(ps))

RECURSIVE PortsOf(_)
PortsOf(q) == IF q = <<>> THEN <<>> ELSE Head(q).ports \o PortsOf(Tail(q))

\* a crossbeam channel is freed, with the messages it still buffers, when its
\* last Sender and its last Receiver are gone
Freed(H, c) == LiveSenders(H, c) = {} /\ Holders(H, c) = {}

RECURSIVE Collect(_)
Collect(H) ==
    LET dead == {c \in Chan : Freed(H, c) /\ H.queue[c] # <<>>}
    IN  IF dead = {} THEN H
        ELSE LET c == CHOOSE x \in dead : TRUE
             IN  Collect(DropChannels([H EXCEPT !.queue[c] = <<>>],
                                      PortsOf(H.queue[c])))

SetHeap(H) ==
    /\ senders' = H.senders
    /\ receivers' = H.receivers
    /\ opaques' = H.opaques
    /\ queue' = H.queue
    /\ is_disconnected' = H.is_disconnected

\* the state of channel c a call found when it started
Pre(c) ==
    [queue |-> queue[c], senders |-> SenderCount(c),
     flag |-> is_disconnected[c], held |-> Holders(Heap, c) # {}]

NoPre == [queue |-> <<>>, senders |-> 0, flag |-> FALSE, held |-> FALSE]

\* the outcome of a call: the operation, the object it was called on, its
\* result, the channel and the message concerned, the receiver set id concerned
Ret(op, obj, val, c, m, pre) ==
    [op |-> op, obj |-> obj, val |-> val, chan |-> c, msg |-> m, pre |-> pre,
     id |-> 0]

\* ------------------------------------------------------------------ Init
NewSender(c, owner) == [chan |-> c, owner |-> owner, pending |-> None, log |-> <<>>]

NewReceiver(c, owner) == [inner |-> Some(c), owner |-> owner]

\* the registry, the receiver set and the histories of a process that has
\* made no call yet
InitProcess ==
    /\ queue = [c \in Chan |-> <<>>]
    /\ is_disconnected = [c \in Chan |-> FALSE]
    /\ opaques = <<>>
    /\ ONE_SHOT_SERVERS = [n \in Names |-> None]
    /\ conn = [n \in Names |-> 0]
    /\ poisoned = FALSE
    /\ servers = <<>>
    /\ connects = {}
    /\ rset = [incrementor |-> 0, receiver_ids |-> <<>>, receivers |-> <<>>,
               selecting |-> FALSE]
    /\ sent = [c \in Chan |-> <<>>]
    /\ rcvd = [c \in Chan |-> <<>>]
    /\ calls = [channel |-> 0, clone |-> 0, consume |-> 0, send |-> 0,
                connect |-> 0, signal |-> 0, add |-> 0]
    /\ added = <<>>

\* no channel exists yet
InitEmpty ==
    /\ InitProcess
    /\ nchan = 0
    /\ senders = <<>>
    /\ receivers = <<>>
    /\ ret = Ret("init", 0, Ok, 0, None, NoPre)

\* ServerRecord::new, lines 32-39: the record keeps the sender; its conn
\* channel starts empty
ServerRecord(h) == [sender |-> h]

\* OsIpcOneShotServer::new() has returned a server and its name, lines 250-260
InitServer ==
    /\ queue = [c \in Chan |-> <<>>]
    /\ is_disconnected = [c \in Chan |-> FALSE]
    /\ opaques = <<>>
    /\ nchan = 1
    /\ senders = <<NewSender(1, "registry")>>
    /\ receivers = <<NewReceiver(1, "server")>>
    /\ ONE_SHOT_SERVERS = [n \in Names |-> IF n = 1 THEN Some(ServerRecord(1)) ELSE None]
    /\ conn = [n \in Names |-> 0]
    /\ poisoned = FALSE
    /\ servers = <<[receiver |-> 1, name |-> 1, chan |-> 1, pc |-> "new",
                    record |-> None]>>
    /\ connects = {}
    /\ rset = [incrementor |-> 0, receiver_ids |-> <<>>, receivers |-> <<>>,
               selecting |-> FALSE]
    /\ sent = [c \in Chan |-> <<>>]
    /\ rcvd = [c \in Chan |-> <<>>]
    /\ calls = [channel |-> 0, clone |-> 0, consume |-> 0, send |-> 0,
                connect |-> 0, signal |-> 0, add |-> 0]
    /\ added = <<>>
    /\ ret = Ret("new", 1, Ok, 1, None, NoPre)

\* OsIpcOneShotServer::new() has returned a server, OsIpcSender::connect a
\* Sender for its name, and channel() the two ends of a second channel
InitTransit ==
    /\ queue = [c \in Chan |-> <<>>]
    /\ is_disconnected = [c \in Chan |-> FALSE]
    /\ opaques = <<>>
    /\ nchan = 2
    /\ senders = <<NewSender(1, "registry"), NewSender(1, "user"),
                   NewSender(2, "user")>>
    /\ receivers = <<NewReceiver(1, "server"), NewReceiver(2, "user")>>
    /\ ONE_SHOT_SERVERS = [n \in Names |-> IF n = 1 THEN Some(ServerRecord(1)) ELSE None]
    /\ conn = [n \in Names |-> IF n = 1 THEN 1 ELSE 0]
    /\ poisoned = FALSE
    /\ servers = <<[receiver |-> 1, name |-> 1, chan |-> 1, pc |-> "new",
                    record |-> None]>>
    /\ connects = {}
    /\ rset = [incrementor |-> 0, receiver_ids |-> <<>>, receivers |-> <<>>,
               selecting |-> FALSE]
    /\ sent = [c \in Chan |-> <<>>]
    /\ rcvd = [c \in Chan |-> <<>>]
    /\ calls = [channel |-> 1, clone |-> 0, consume |-> 0, send |-> 0,
                connect |-> 1, signal |-> 1, add |-> 0]
    /\ added = <<>>
    /\ ret = Ret("channel", 0, Ok, 2, None, NoPre)

\* channel() has returned twice and OsIpcReceiverSet::new() once, lines 56-63
\* and 179-185
InitSet ==
    /\ InitProcess
    /\ nchan = 2
    /\ senders = <<NewSender(1, "user"), NewSender(2, "user")>>
    /\ receivers = <<NewReceiver(1, "user"), NewReceiver(2, "user")>>
    /\ ret = Ret("channel", 0, Ok, 2, None, NoPre)

\* channel() has returned the two ends of one channel, lines 56-63
Init ==
    /\ InitProcess
    /\ nchan = 1
    /\ senders = <<NewSender(1, "user")>>
    /\ receivers = <<NewReceiver(1, "user")>>
    /\ ret = Ret("channel", 0, Ok, 1, None, NoPre)

\* ------------------------------------------------------------------ channel core
UserSender(h) ==
    /\ h \in 1..Len(senders)
    /\ senders[h].owner = "user"
    /\ senders[h].pending = None

UserReceiver(r) ==
    /\ r \in 1..Len(receivers)
    /\ receivers[r].owner = "user"

SetOwner(H, p, o) ==
    IF p.kind = "Sender"
    THEN [H EXCEPT !.senders[p.id].owner = o]
    ELSE [H EXCEPT !.receivers[p.id].owner = o]

RECURSIVE SetOwners(_, _, _)
SetOwners(H, ps, o) ==
    IF ps = <<>> THEN H ELSE SetOwners(SetOwner(H, Head(ps), o), Tail(ps), o)

\* mutant: the endpoints of a received message are wrapped last to first
RECURSIVE WrapReversed(_, _)
WrapReversed(H, ps) ==
    IF ps = <<>> THEN H
    ELSE WrapReversed(
             [SetOwner(H, ps[Len(ps)], "opaque") EXCEPT
                 !.opaques = Append(@, [channel |-> Some(ps[Len(ps)]),
                                        live |-> TRUE, made |-> ps[Len(ps)]])],
             SubSeq(ps, 1, Len(ps) - 1))

\* OsOpaqueIpcChannel::new, lines 297-302; made is history: the endpoint the
\* wrapper was made for
OsOpaqueIpcChannel(p) == [channel |-> Some(p), live |-> TRUE, made |-> p]

\* channels.into_iter().map(OsOpaqueIpcChannel::new).collect() over the
\* endpoints of a received message
RECURSIVE Wrap(_, _)
Wrap(H, ps) ==
    IF ps = <<>> THEN H
    ELSE Wrap([SetOwner(H, Head(ps), "opaque") EXCEPT
                  !.opaques = Append(@, OsOpaqueIpcChannel(Head(ps)))],
              Tail(ps))

\* mutant: the queue hands out its newest message
DequeueLifo(q) == [msg |-> q[Len(q)], rest |-> SubSeq(q, 1, Len(q) - 1)]

\* the crossbeam queue hands out its oldest message
Dequeue(q) == [msg |-> Head(q), rest |-> Tail(q)]

\* mutant: the queue takes a message at its head
EnqueueFront(q, m) == <<m>> \o q

\* the crossbeam queue takes a message
Enqueue(q, m) == Append(q, m)

\* a receive that found a message in channel c
Take(H, c) ==
    LET d == Dequeue(H.queue[c])
    IN  Wrap([H EXCEPT !.queue[c] = d.rest], d.msg.ports)

\* channel(), lines 56-63
channel ==
    /\ calls.channel < MaxChannels
    /\ LET c == nchan + 1
       IN  /\ nchan' = c
           /\ senders' = Append(senders, NewSender(c, "user"))
           /\ receivers' = Append(receivers, NewReceiver(c, "user"))
           /\ ret' = Ret("channel", 0, Ok, c, None, NoPre)
    /\ calls' = [calls EXCEPT !.channel = @ + 1]
    /\ UNCHANGED <<queue, is_disconnected, opaques, serverVars, rset, sent, rcvd, added>>

\* #[derive(Clone)] on OsIpcSender
SenderClone(h) ==
    /\ UserSender(h)
    /\ calls.clone < MaxClones
    /\ senders' = Append(senders, NewSender(senders[h].chan, "user"))
    /\ ret' = Ret("clone", h, Ok, senders[h].chan, None, NoPre)
    /\ calls' = [calls EXCEPT !.clone = @ + 1]
    /\ UNCHANGED <<nchan, queue, is_disconnected, receivers, opaques,
                   serverVars, rset, sent, rcvd, added>>

\* an OsIpcSender goes out of scope
SenderDrop(h) ==
    /\ UserSender(h)
    /\ SetHeap(Collect(DropSender(Heap, h)))
    /\ ret' = Ret("drop_sender", h, Ok, senders[h].chan, None, Pre(senders[h].chan))
    /\ UNCHANGED <<nchan, serverVars, rset, sent, rcvd, calls, added>>

\* the endpoints a caller can move into a message sent on h
Movable(h) ==
    {Sender(x) : x \in {y \in 1..Len(senders) : UserSender(y) /\ y # h}}
        \cup {Receiver(r) : r \in {y \in 1..Len(receivers) : UserReceiver(y)}}

RECURSIVE PortSeqs(_, _)
PortSeqs(n, avail) ==
    IF n = 0 THEN {<<>>}
    ELSE {<<>>} \cup
         UNION {{<<p>> \o s : s \in PortSeqs(n - 1, avail \ {p})} : p \in avail}

\* mutant: send does not look at is_disconnected
send_unchecked(h, p, ps) ==
    /\ UserSender(h)
    /\ calls.send < MaxSends
    /\ LET c == senders[h].chan
           m == ChannelMessage(p.data, ps, p.shmem, h)
           H == SetOwners(Heap, ps, "msg")
       IN  /\ SetHeap([H EXCEPT
                   !.senders[h].pending = Some([msg |-> m, pre |-> Pre(c)]),
                   !.senders[h].log = Append(@, m)])
           /\ ret' = Ret("send_check", h, Ok, c, Some(m), Pre(c))
    /\ calls' = [calls EXCEPT !.send = @ + 1]
    /\ UNCHANGED <<nchan, serverVars, rset, sent, rcvd, added>>

\* OsIpcSender::send up to the load of is_disconnected, lines 156-164
send(h, p, ps) ==
    /\ UserSender(h)
    /\ calls.send < MaxSends
    /\ LET c == senders[h].chan
           m == ChannelMessage(p.data, ps, p.shmem, h)
           H == SetOwners(Heap, ps, "msg")
       IN  IF is_disconnected[c]
           THEN /\ SetHeap(Collect(DropChannels(H, ps)))
                /\ ret' = Ret("send", h, BrokenPipeError, c, Some(m), Pre(c))
           ELSE /\ SetHeap([H EXCEPT
                       !.senders[h].pending = Some([msg |-> m, pre |-> Pre(c)]),
                       !.senders[h].log = Append(@, m)])
                /\ ret' = Ret("send_check", h, Ok, c, Some(m), Pre(c))
    /\ calls' = [calls EXCEPT !.send = @ + 1]
    /\ UNCHANGED <<nchan, serverVars, rset, sent, rcvd, added>>

\* OsIpcSender::send, the crossbeam send of lines 165-167
send_enqueue(h) ==
    /\ h \in 1..Len(senders)
    /\ senders[h].pending # None
    /\ LET c == senders[h].chan
           m == senders[h].pending[1].msg
       IN  /\ queue' = [queue EXCEPT ![c] = Enqueue(@, m)]
           /\ sent' = [sent EXCEPT ![c] = Append(@, m)]
           /\ ret' = Ret("send", h, Ok, c, Some(m), senders[h].pending[1].pre)
    /\ senders' = [senders EXCEPT ![h].pending = None]
    /\ UNCHANGED <<nchan, is_disconnected, receivers, opaques, serverVars, rset,
                   rcvd, calls, added>>

\* mutant: a receive reports the closed channel before the buffered messages
ReceivedClosedFirst(op, r, c) ==
    IF queue[c] # <<>> /\ SenderCount(c) > 0
    THEN /\ SetHeap(Take(Heap, c))
         /\ rcvd' = [rcvd EXCEPT ![c] = Append(@, Dequeue(queue[c]).msg)]
         /\ ret' = Ret(op, r, Ok, c, Some(Dequeue(queue[c]).msg), Pre(c))
    ELSE /\ ret' = Ret(op, r,
                       IF SenderCount(c) = 0 THEN ChannelClosedError ELSE UnknownError,
                       c, None, Pre(c))
         /\ UNCHANGED <<queue, is_disconnected, senders, receivers, opaques, rcvd>>

\* what a receive on channel c yields when it does not wait
Received(op, r, c) ==
    IF queue[c] # <<>>
    THEN /\ SetHeap(Take(Heap, c))
         /\ rcvd' = [rcvd EXCEPT ![c] = Append(@, Dequeue(queue[c]).msg)]
         /\ ret' = Ret(op, r, Ok, c, Some(Dequeue(queue[c]).msg), Pre(c))
    ELSE /\ ret' = Ret(op, r,
                       IF SenderCount(c) = 0 THEN ChannelClosedError ELSE UnknownError,
                       c, None, Pre(c))
         /\ UNCHANGED <<queue, is_disconnected, senders, receivers, opaques, rcvd>>

\* taking the receiver out of an emptied handle: unwrap() on None
Unwrapped(op, r) ==
    /\ ret' = Ret(op, r, Panic, 0, None, NoPre)
    /\ UNCHANGED <<queue, is_disconnected, senders, receivers, opaques, rcvd>>

\* the crossbeam recv returns: a message is buffered or every sender is gone
Ready(c) == queue[c] # <<>> \/ SenderCount(c) = 0

\* OsIpcReceiver::recv, lines 96-106
recv(r) ==
    /\ UserReceiver(r)
    /\ IF receivers[r].inner = None
       THEN Unwrapped("recv", r)
       ELSE /\ Ready(receivers[r].inner[1])
            /\ Received("recv", r, receivers[r].inner[1])
    /\ UNCHANGED <<nchan, serverVars, rset, sent, calls, added>>

\* mutant: try_recv waits like recv
try_recv_waits(r) ==
    /\ UserReceiver(r)
    /\ IF receivers[r].inner = None
       THEN Unwrapped("try_recv", r)
       ELSE /\ Ready(receivers[r].inner[1])
            /\ Received("try_recv", r, receivers[r].inner[1])
    /\ UNCHANGED <<nchan, serverVars, rset, sent, calls, added>>

\* OsIpcReceiver::try_recv, lines 108-122
try_recv(r) ==
    /\ UserReceiver(r)
    /\ IF receivers[r].inner = None
       THEN Unwrapped("try_recv", r)
       ELSE Received("try_recv", r, receivers[r].inner[1])
    /\ UNCHANGED <<nchan, serverVars, rset, sent, calls, added>>

\* mutant: consume copies the receiver and leaves it in the original handle
ConsumedCopy(H, r, owner) ==
    [H EXCEPT !.receivers =
        Append(@, [inner |-> H.receivers[r].inner, owner |-> owner])]

\* OsIpcReceiver::consume, lines 92-94
Consumed(H, r, owner) ==
    [H EXCEPT !.receivers =
        Append([@ EXCEPT ![r].inner = None],
               [inner |-> H.receivers[r].inner, owner |-> owner])]

consume(r) ==
    /\ UserReceiver(r)
    /\ calls.consume < MaxConsumes
    /\ SetHeap(Consumed(Heap, r, "user"))
    /\ ret' = Ret("consume", r, Ok, 0, None, NoPre)
    /\ calls' = [calls EXCEPT !.consume = @ + 1]
    /\ UNCHANGED <<nchan, serverVars, rset, sent, rcvd, added>>

\* an OsIpcReceiver goes out of scope: Drop for OsIpcReceiverInner, lines 74-78
ReceiverDrop(r) ==
    /\ UserReceiver(r)
    /\ SetHeap(Collect(DropReceiverInner(Heap, r)))
    /\ ret' = Ret("drop_receiver", r, Ok, 0, None, NoPre)
    /\ UNCHANGED <<nchan, serverVars, rset, sent, rcvd, calls, added>>

\* ------------------------------------------------------------------ opaque endpoint
LiveOpaque(o) == o \in 1..Len(opaques) /\ opaques[o].live

\* the channel an endpoint belongs to, 0 for an emptied receiver handle
ChanOf(p) ==
    IF p.kind = "Sender" THEN senders[p.id].chan
    ELSE IF receivers[p.id].inner = None THEN 0 ELSE receivers[p.id].inner[1]

\* mutant: the accessor hands out the endpoint and leaves it in the slot
TakenKept(op, o, kind) ==
    IF opaques[o].channel = None
    THEN /\ ret' = Ret(op, o, Panic, 0, None, NoPre)
         /\ UNCHANGED <<queue, is_disconnected, senders, receivers, opaques>>
    ELSE LET p == opaques[o].channel[1]
         IN  IF p.kind = kind
             THEN /\ SetHeap(SetOwner(Heap, p, "user"))
                  /\ ret' = [Ret(op, o, Ok, ChanOf(p), None, NoPre) EXCEPT !.id = p.id]
             ELSE /\ SetHeap(Collect(DropChannel(
                          [Heap EXCEPT !.opaques[o].channel = None], p)))
                  /\ ret' = Ret(op, o, Panic, 0, None, NoPre)

\* channel.borrow_mut().take().unwrap() and the match, lines 304-316: the
\* endpoint is taken out of the slot before its direction is looked at, so the
\* mismatched accessor drops it
Taken(op, o, kind) ==
    IF opaques[o].channel = None
    THEN /\ ret' = Ret(op, o, Panic, 0, None, NoPre)
         /\ UNCHANGED <<queue, is_disconnected, senders, receivers, opaques>>
    ELSE LET p == opaques[o].channel[1]
             H == [Heap EXCEPT !.opaques[o].channel = None]
         IN  IF p.kind = kind
             THEN /\ SetHeap(SetOwner(H, p, "user"))
                  /\ ret' = [Ret(op, o, Ok, ChanOf(p), None, NoPre) EXCEPT !.id = p.id]
             ELSE /\ SetHeap(Collect(DropChannel(H, p)))
                  /\ ret' = Ret(op, o, Panic, 0, None, NoPre)

\* OsOpaqueIpcChannel::to_receiver, lines 304-309
to_receiver(o) ==
    /\ LiveOpaque(o)
    /\ Taken("to_receiver", o, "Receiver")
    /\ UNCHANGED <<nchan, serverVars, rset, sent, rcvd, calls, added>>

\* OsOpaqueIpcChannel::to_sender, lines 311-316
to_sender(o) ==
    /\ LiveOpaque(o)
    /\ Taken("to_sender", o, "Sender")
    /\ UNCHANGED <<nchan, serverVars, rset, sent, rcvd, calls, added>>

\* an OsOpaqueIpcChannel goes out of scope
OpaqueDrop(o) ==
    /\ LiveOpaque(o)
    /\ SetHeap(Collect(DropChannels(
           [Heap EXCEPT !.opaques[o].channel = None, !.opaques[o].live = FALSE],
           opaques[o].channel)))
    /\ ret' = Ret("drop_opaque", o, Ok, 0, None, NoPre)
    /\ UNCHANGED <<nchan, serverVars, rset, sent, rcvd, calls, added>>

\* ------------------------------------------------------------------ receiver set
\* mutant: the next id is the number of receivers the set holds
incrementor_len == Len(rset.receivers)

\* self.incrementor.next().unwrap(), line 188
incrementor_next == rset.incrementor

\* OsIpcReceiverSet::add, lines 187-192; &mut self: not while select runs
add(r) ==
    /\ UserReceiver(r)
    /\ ~rset.selecting
    /\ calls.add < MaxAdds
    /\ LET last_index == incrementor_next
           H == Consumed(Heap, r, "set")
       IN  /\ rset' = [rset EXCEPT
                       !.incrementor = last_index + 1,
                       !.receiver_ids = Append(@, last_index),
                       !.receivers = Append(@, Len(H.receivers))]
           /\ SetHeap(Collect(DropReceiverInner(H, r)))
           /\ added' = Append(added, [handle |-> Len(H.receivers),
                                      inner |-> receivers[r].inner])
           /\ ret' = [Ret("add", r, Ok, 0, None, NoPre) EXCEPT !.id = last_index]
    /\ calls' = [calls EXCEPT !.add = @ + 1]
    /\ UNCHANGED <<nchan, serverVars, sent, rcvd>>

\* OsIpcSelectionResult, lines 226-229
DataReceived == "DataReceived"
ChannelClosed == "ChannelClosed"

\* Vec::remove(index)
RemoveAt(s, i) == SubSeq(s, 1, i - 1) \o SubSeq(s, i + 1, Len(s))

\* the channel behind the i-th receiver of the set
SetChan(i) == receivers[rset.receivers[i]].inner

\* mutant: the select watches the first receiver of the set only
ReadyFirst ==
    {i \in {1} \cap (1..Len(rset.receivers)) :
        SetChan(i) # None /\ Ready(SetChan(i)[1])}

\* the registered receivers the crossbeam select can return for
ReadyIndexes ==
    {i \in 1..Len(rset.receivers) : SetChan(i) # None /\ Ready(SetChan(i)[1])}

\* mutant: select does not test is_empty and waits on an empty set
select_no_test ==
    /\ ~rset.selecting
    /\ IF \E i \in 1..Len(rset.receivers) : SetChan(i) = None
       THEN /\ ret' = Ret("select", 0, Panic, 0, None, NoPre)
            /\ UNCHANGED rset
       ELSE /\ ret' = Ret("select_wait", 0, Ok, 0, None, NoPre)
            /\ rset' = [rset EXCEPT !.selecting = TRUE]
    /\ UNCHANGED <<heapVars, serverVars, sent, rcvd, calls, added>>

\* OsIpcReceiverSet::select up to the select! of line 207: the test of
\* is_empty (lines 195-197) and the borrows (lines 203-205)
select ==
    /\ ~rset.selecting
    /\ IF rset.receivers = <<>>
       THEN /\ ret' = Ret("select", 0, UnknownError, 0, None, NoPre)
            /\ UNCHANGED rset
       ELSE IF \E i \in 1..Len(rset.receivers) : SetChan(i) = None
            THEN /\ ret' = Ret("select", 0, Panic, 0, None, NoPre)
                 /\ UNCHANGED rset
            ELSE /\ ret' = Ret("select_wait", 0, Ok, 0, None, NoPre)
                 /\ rset' = [rset EXCEPT !.selecting = TRUE]
    /\ UNCHANGED <<heapVars, serverVars, sent, rcvd, calls, added>>

\* mutant: the id reported is the position in the set
r_id_position(i) == i - 1

\* let r_id = self.receiver_ids[r_index], line 210
r_id(i) == rset.receiver_ids[i]

\* mutant: a closed receiver stays in the set
select_closed_keep(i) == rset.receivers

\* self.receivers.remove(r_index), line 220
select_closed(i) == RemoveAt(rset.receivers, i)

\* OsIpcReceiverSet::select from the select! on, lines 207-222: the crossbeam
\* select returns for one of the ready receivers
select_return(i) ==
    /\ rset.selecting
    /\ i \in ReadyIndexes
    /\ LET c == SetChan(i)[1]
       IN  IF queue[c] # <<>>
           THEN /\ SetHeap(Take(Heap, c))
                /\ rcvd' = [rcvd EXCEPT ![c] = Append(@, Dequeue(queue[c]).msg)]
                /\ rset' = [rset EXCEPT !.selecting = FALSE]
                /\ ret' = [Ret("select", i, DataReceived, c,
                               Some(Dequeue(queue[c]).msg), Pre(c))
                              EXCEPT !.id = r_id(i)]
           ELSE /\ SetHeap(Collect(DropReceiverInner(Heap, rset.receivers[i])))
                /\ rset' = [rset EXCEPT
                               !.selecting = FALSE,
                               !.receivers = select_closed(i),
                               !.receiver_ids = RemoveAt(@, i)]
                /\ ret' = [Ret("select", i, ChannelClosed, c, None, Pre(c))
                              EXCEPT !.id = r_id(i)]
                /\ UNCHANGED rcvd
    /\ UNCHANGED <<nchan, serverVars, sent, calls, added>>

\* ------------------------------------------------------------------ one-shot server
\* mutant: the lookup answers with the published server's record whatever
\* the name and whether or not the entry is still there
GetStale(name) == Some(ServerRecord(1))

\* ONE_SHOT_SERVERS.lock().unwrap().get(&name)
Get(name) == ONE_SHOT_SERVERS[name]

\* mutant: connect hands out the sender of a channel of its own
connect_fresh(name) ==
    /\ calls.connect < MaxConnects
    /\ IF poisoned \/ Get(name) = None
       THEN /\ poisoned' = TRUE
            /\ ret' = Ret("connect", name, Panic, 0, None, NoPre)
            /\ UNCHANGED <<nchan, senders, connects>>
       ELSE LET c == nchan + 1
            IN  /\ nchan' = c
                /\ senders' = Append(senders, NewSender(c, "connect"))
                /\ connects' = connects \cup
                                 {[name |-> name, sender |-> Len(senders) + 1]}
                /\ ret' = Ret("connect_lookup", name, Ok, c, None, NoPre)
                /\ UNCHANGED poisoned
    /\ calls' = [calls EXCEPT !.connect = @ + 1]
    /\ UNCHANGED <<queue, is_disconnected, receivers, opaques,
                   ONE_SHOT_SERVERS, conn, servers, rset, sent, rcvd, added>>

\* OsIpcSender::connect, line 147: the lookup under the registry lock
connect(name) ==
    /\ calls.connect < MaxConnects
    /\ IF poisoned \/ Get(name) = None
       THEN /\ poisoned' = TRUE
            /\ ret' = Ret("connect", name, Panic, 0, None, NoPre)
            /\ UNCHANGED <<senders, connects>>
       ELSE LET c == senders[Get(name)[1].sender].chan
            IN  /\ senders' = Append(senders, NewSender(c, "connect"))
                /\ connects' = connects \cup
                                 {[name |-> name, sender |-> Len(senders) + 1]}
                /\ ret' = Ret("connect_lookup", name, Ok, c, None, NoPre)
                /\ UNCHANGED poisoned
    /\ calls' = [calls EXCEPT !.connect = @ + 1]
    /\ UNCHANGED <<nchan, queue, is_disconnected, receivers, opaques,
                   ONE_SHOT_SERVERS, conn, servers, rset, sent, rcvd, added>>

\* mutant: the rendezvous slot holds one signal, a second connect waits
connect_signal_oneslot(k) ==
    /\ k \in connects
    /\ conn[k.name] = 0
    /\ conn' = [conn EXCEPT ![k.name] = @ + 1]
    /\ senders' = [senders EXCEPT ![k.sender].owner = "user"]
    /\ connects' = connects \ {k}
    /\ ret' = Ret("connect", k.name, Ok, senders[k.sender].chan, None, NoPre)
    /\ calls' = [calls EXCEPT !.signal = @ + 1]
    /\ UNCHANGED <<nchan, queue, is_disconnected, receivers, opaques,
                   ONE_SHOT_SERVERS, poisoned, servers, rset, sent, rcvd, added>>

\* ServerRecord::connect and the return of OsIpcSender::connect, lines 45-47, 148-149
connect_signal(k) ==
    /\ k \in connects
    /\ conn' = [conn EXCEPT ![k.name] = @ + 1]
    /\ senders' = [senders EXCEPT ![k.sender].owner = "user"]
    /\ connects' = connects \ {k}
    /\ ret' = Ret("connect", k.name, Ok, senders[k.sender].chan, None, NoPre)
    /\ calls' = [calls EXCEPT !.signal = @ + 1]
    /\ UNCHANGED <<nchan, queue, is_disconnected, receivers, opaques,
                   ONE_SHOT_SERVERS, poisoned, servers, rset, sent, rcvd, added>>

\* mutant: accept leaves the entry in the registry
RemoveNothing(name) == ONE_SHOT_SERVERS

\* ONE_SHOT_SERVERS.lock().unwrap().remove(&name)
Remove(name) == [ONE_SHOT_SERVERS EXCEPT ![name] = None]

ServerAt(n, pc) == n \in 1..Len(servers) /\ servers[n].pc = pc

\* the names OsIpcOneShotServer::new has returned
Published == {servers[n].name : n \in 1..Len(servers)}

\* a panic or an error return inside accept drops self and the cloned record
Unwind(H, n) ==
    LET H1 == DropReceiverInner(H, servers[n].receiver)
    IN  Collect(IF servers[n].record = None THEN H1
                ELSE DropSender(H1, servers[n].record[1]))

\* OsIpcOneShotServer::accept, lines 273-278: the lookup under the registry lock
accept(n) ==
    /\ ServerAt(n, "new")
    /\ IF poisoned \/ Get(n) = None
       THEN /\ poisoned' = TRUE
            /\ SetHeap(Unwind(Heap, n))
            /\ servers' = [servers EXCEPT ![n].pc = "panicked"]
            /\ ret' = Ret("accept", n, Panic, 0, None, NoPre)
       ELSE LET c == senders[Get(n)[1].sender].chan
            IN  /\ senders' = Append(senders, NewSender(c, "accept"))
                /\ servers' = [servers EXCEPT ![n].pc = "waiting",
                                              ![n].record = Some(Len(senders) + 1)]
                /\ ret' = Ret("accept_lookup", n, Ok, c, None, NoPre)
                /\ UNCHANGED <<poisoned, queue, is_disconnected, receivers, opaques>>
    /\ UNCHANGED <<nchan, ONE_SHOT_SERVERS, conn, connects, rset, sent, rcvd, calls, added>>

\* mutant: accept goes on without a signal
accept_nowait(n) ==
    /\ ServerAt(n, "waiting")
    /\ conn' = [conn EXCEPT ![n] = IF @ > 0 THEN @ - 1 ELSE @]
    /\ servers' = [servers EXCEPT ![n].pc = "signalled"]
    /\ ret' = Ret("accept_wait", n, Ok, 0, None, NoPre)
    /\ UNCHANGED <<heapVars, ONE_SHOT_SERVERS, poisoned, connects, rset,
                   sent, rcvd, calls, added>>

\* ServerRecord::accept, lines 41-43 and 279: wait for a signal
accept_wait(n) ==
    /\ ServerAt(n, "waiting")
    /\ conn[n] > 0
    /\ conn' = [conn EXCEPT ![n] = @ - 1]
    /\ servers' = [servers EXCEPT ![n].pc = "signalled"]
    /\ ret' = Ret("accept_wait", n, Ok, 0, None, NoPre)
    /\ UNCHANGED <<heapVars, ONE_SHOT_SERVERS, poisoned, connects, rset,
                   sent, rcvd, calls, added>>

\* OsIpcOneShotServer::accept, line 280: the removal under the registry lock
accept_remove(n) ==
    /\ ServerAt(n, "signalled")
    /\ IF poisoned \/ Get(n) = None
       THEN /\ poisoned' = TRUE
            /\ SetHeap(Unwind(Heap, n))
            /\ servers' = [servers EXCEPT ![n].pc = "panicked", ![n].record = None]
            /\ ret' = Ret("accept", n, Panic, 0, None, NoPre)
            /\ UNCHANGED ONE_SHOT_SERVERS
       ELSE /\ ONE_SHOT_SERVERS' = Remove(n)
            /\ SetHeap(Collect(DropSender(Heap, Get(n)[1].sender)))
            /\ servers' = [servers EXCEPT ![n].pc = "receiving"]
            /\ ret' = Ret("accept_remove", n, Ok, 0, None, NoPre)
            /\ UNCHANGED poisoned
    /\ UNCHANGED <<nchan, conn, connects, rset, sent, rcvd, calls, added>>

\* mutant: the record accept cloned outlives the call
KeepRecord(H, n) == H

\* the record accept cloned at lines 273-278 goes out of scope at the return
\* of line 282, and the OsIpcSender in it with it
DropRecord(H, n) == DropSender(H, servers[n].record[1])

\* OsIpcOneShotServer::accept, lines 281-282: the first receive and the return
accept_recv(n) ==
    /\ ServerAt(n, "receiving")
    /\ LET r == servers[n].receiver
           c == receivers[r].inner[1]
       IN  /\ Ready(c)
           /\ IF queue[c] # <<>>
              THEN /\ SetHeap(Collect(DropRecord(
                          SetOwner(Take(Heap, c), Receiver(r), "user"), n)))
                   /\ rcvd' = [rcvd EXCEPT ![c] = Append(@, Dequeue(queue[c]).msg)]
                   /\ servers' = [servers EXCEPT ![n].pc = "accepted",
                                                 ![n].record = None]
                   /\ ret' = Ret("accept", n, Ok, c, Some(Dequeue(queue[c]).msg), Pre(c))
              ELSE /\ SetHeap(Unwind(Heap, n))
                   /\ servers' = [servers EXCEPT ![n].pc = "failed", ![n].record = None]
                   /\ ret' = Ret("accept", n, ChannelClosedError, c, None, Pre(c))
                   /\ UNCHANGED rcvd
    /\ UNCHANGED <<nchan, ONE_SHOT_SERVERS, conn, poisoned, connects, rset, sent, calls, added>>

\* an OsIpcOneShotServer goes out of scope without accept
ServerDrop(n) ==
    /\ ServerAt(n, "new")
    /\ SetHeap(Unwind(Heap, n))
    /\ servers' = [servers EXCEPT ![n].pc = "dropped"]
    /\ ret' = Ret("drop_server", n, Ok, 0, None, NoPre)
    /\ UNCHANGED <<nchan, ONE_SHOT_SERVERS, conn, poisoned, connects, rset,
                   sent, rcvd, calls, added>>

\* ------------------------------------------------------------------ specifications
NoPorts == {<<>>}

\* one channel: its senders, their clones and its receiver
Next ==
    \/ \E h \in 1..Len(senders) : SenderClone(h)
    \/ \E h \in 1..Len(senders) : SenderDrop(h)
    \/ \E h \in 1..Len(senders) : \E p \in Payloads : \E ps \in NoPorts :
         send(h, p, ps)
    \/ \E h \in 1..Len(senders) : send_enqueue(h)
    \/ \E r \in 1..Len(receivers) : recv(r)
    \/ \E r \in 1..Len(receivers) : try_recv(r)
    \/ \E r \in 1..Len(receivers) : ReceiverDrop(r)

Spec == Init /\ [][Next]_vars

\* a one-shot server a party has connected to and a second channel, whose
\* endpoints travel inside messages
NextTransit ==
    \/ \E n \in 1..Len(servers) : accept(n)
    \/ \E n \in 1..Len(servers) : accept_wait(n)
    \/ \E n \in 1..Len(servers) : accept_remove(n)
    \/ \E n \in 1..Len(servers) : accept_recv(n)
    \/ \E h \in 1..Len(senders) : \E p \in {PayloadAt(calls.send)} :
         \E ps \in PortSeqs(MaxPorts, Movable(h)) : send(h, p, ps)
    \/ \E h \in 1..Len(senders) : send_enqueue(h)
    \/ \E r \in 1..Len(receivers) : recv(r)
    \/ \E r \in 1..Len(receivers) : try_recv(r)
    \/ \E r \in 1..Len(receivers) : add(r)
    \/ select
    \/ \E i \in 1..Len(rset.receivers) : select_return(i)
    \/ \E o \in 1..Len(opaques) : to_receiver(o)
    \/ \E o \in 1..Len(opaques) : to_sender(o)

SpecTransit == InitTransit /\ [][NextTransit]_vars

\* the one-shot server, the parties that connect to it and the channel it
\* bootstraps
NextServer ==
    \/ \E name \in Names : connect(name)
    \/ \E k \in connects : connect_signal(k)
    \/ \E n \in 1..Len(servers) : accept(n)
    \/ \E n \in 1..Len(servers) : accept_wait(n)
    \/ \E n \in 1..Len(servers) : accept_remove(n)
    \/ \E n \in 1..Len(servers) : accept_recv(n)
    \/ \E n \in 1..Len(servers) : ServerDrop(n)
    \/ \E h \in 1..Len(senders) : SenderDrop(h)
    \/ \E h \in 1..Len(senders) : \E p \in Payloads : \E ps \in NoPorts :
         calls.send < MaxBootSends /\ send(h, p, ps)
    \/ \E h \in 1..Len(senders) : send_enqueue(h)
    \/ \E r \in 1..Len(receivers) : recv(r)

SpecServer == InitServer /\ [][NextServer]_vars

\* the same with clones of the Senders connect returned
NextServerClones ==
    \/ NextServer
    \/ \E h \in 1..Len(senders) : SenderClone(h)

SpecServerClones == InitServer /\ [][NextServerClones]_vars

\* the one-shot server whose accept is called, and parties that connect to
\* the name new() returned, send and drop their senders
NextAccept ==
    \/ \E name \in Published : connect(name)
    \/ \E k \in connects : connect_signal(k)
    \/ \E n \in 1..Len(servers) : accept(n)
    \/ \E n \in 1..Len(servers) : accept_wait(n)
    \/ \E n \in 1..Len(servers) : accept_remove(n)
    \/ \E n \in 1..Len(servers) : accept_recv(n)
    \/ \E h \in 1..Len(senders) : SenderDrop(h)
    \/ \E h \in 1..Len(senders) : \E p \in Payloads : \E ps \in NoPorts :
         calls.send < MaxBootSends /\ send(h, p, ps)
    \/ \E h \in 1..Len(senders) : send_enqueue(h)

\* the thread that called accept keeps running: a crossbeam recv returns once
\* a signal or a message is buffered or every sender is gone, and the registry
\* lock is held for single statements only
SpecAcceptFair ==
    /\ InitServer
    /\ [][NextAccept]_vars
    /\ WF_vars(\E n \in 1..Len(servers) : accept_wait(n))
    /\ WF_vars(\E n \in 1..Len(servers) : accept_remove(n))
    /\ WF_vars(\E n \in 1..Len(servers) : accept_recv(n))

\* one channel whose receiver is consumed, added to the receiver set or dropped
NextFlag ==
    \/ \E h \in 1..Len(senders) : \E p \in Payloads : \E ps \in NoPorts :
         send(h, p, ps)
    \/ \E h \in 1..Len(senders) : send_enqueue(h)
    \/ \E r \in 1..Len(receivers) : try_recv(r)
    \/ \E r \in 1..Len(receivers) : consume(r)
    \/ \E r \in 1..Len(receivers) : add(r)
    \/ \E r \in 1..Len(receivers) : ReceiverDrop(r)

SpecFlag == Init /\ [][NextFlag]_vars

\* two channels whose receivers are added to the receiver set
NextSet ==
    \/ \E r \in 1..Len(receivers) : add(r)
    \/ select
    \/ \E i \in 1..Len(rset.receivers) : select_return(i)
    \/ \E h \in 1..Len(senders) : \E p \in Payloads : \E ps \in NoPorts :
         send(h, p, ps)
    \/ \E h \in 1..Len(senders) : send_enqueue(h)
    \/ \E h \in 1..Len(senders) : SenderDrop(h)

SpecSet == InitSet /\ [][NextSet]_vars

\* the crossbeam select wakes the waiting thread when one of the receivers it
\* watches gets a message or is closed
SpecSetFair ==
    SpecSet /\ WF_vars(\E i \in 1..Len(rset.receivers) : select_return(i))

\* ------------------------------------------------------------------ properties
IsPrefix(s, t) == Len(s) <= Len(t) /\ SubSeq(t, 1, Len(s)) = s

\* the messages of s that the OsIpcSender h sent
BySender(s, h) == SelectSeq(s, LAMBDA m : m.by = h)

\* the message of a send call of h that has not reached the queue yet
PendingOf(h) ==
    IF senders[h].pending = None THEN <<>> ELSE <<senders[h].pending[1].msg>>

Channels == 1..nchan

\* C1: the k-th message a receiver gets out of a channel is the k-th message
\* that was sent on it, with the same bytes, endpoints and shared memory
\* regions, and while the channel lives the messages received followed by the
\* messages still buffered are exactly the messages sent: none is lost,
\* duplicated or reordered.
C1_FifoDelivery ==
    \A c \in Channels :
        /\ Len(rcvd[c]) <= Len(sent[c])
        /\ \A k \in 1..Len(rcvd[c]) : rcvd[c][k] = sent[c][k]
        /\ ~Freed(Heap, c) => rcvd[c] \o queue[c] = sent[c]

\* three messages, not all equal, were sent and then received by recv
C1_Witness ==
    /\ ret.op = "recv" /\ ret.val = Ok
    /\ Len(rcvd[1]) >= 3
    /\ rcvd[1][1] # rcvd[1][2]
    /\ rcvd[1] = sent[1]

\* C2: for every clone of a Sender, the messages of that clone the receiver
\* has got so far are a prefix of the clone's send calls in their order, and
\* the clone's messages received, buffered or about to be enqueued are exactly
\* its send calls in their order, however the clones interleave.
C2_CloneOrder ==
    \A h \in 1..Len(senders) :
        LET c == senders[h].chan
        IN  /\ IsPrefix(BySender(rcvd[c], h), senders[h].log)
            /\ BySender(sent[c], h) \o PendingOf(h) = senders[h].log
            /\ ~Freed(Heap, c) =>
                 BySender(rcvd[c] \o queue[c], h) \o PendingOf(h) = senders[h].log

\* the receiver got a message of one clone between two different messages of
\* the other clone
C2_Witness ==
    /\ Len(rcvd[1]) >= 3
    /\ rcvd[1][1].by = rcvd[1][3].by
    /\ rcvd[1][1].by # rcvd[1][2].by
    /\ rcvd[1][1] # rcvd[1][3]

ReceiveOps == {"recv", "try_recv"}

\* C3: a recv or try_recv returns ChannelClosedError only when it found the
\* queue empty and no Sender of the channel alive; with no Sender alive it
\* returns the oldest buffered message while one remains and
\* ChannelClosedError once the queue is drained, and recv does not wait then.
C3_ClosedAfterDrain ==
    /\ (ret.op \in ReceiveOps /\ ret.val = ChannelClosedError) =>
           (ret.pre.queue = <<>> /\ ret.pre.senders = 0)
    /\ (ret.op \in ReceiveOps /\ ret.val # Panic /\ ret.pre.senders = 0) =>
           IF ret.pre.queue # <<>>
           THEN ret.val = Ok /\ ret.msg = Some(Head(ret.pre.queue))
           ELSE ret.val = ChannelClosedError
    /\ \A r \in 1..Len(receivers) :
           (UserReceiver(r) /\ receivers[r].inner # None
               /\ SenderCount(receivers[r].inner[1]) = 0) =>
           (ENABLED recv(r) /\ ENABLED try_recv(r))

\* every sender was dropped with messages still buffered, the receiver got
\* them all and the next recv failed with ChannelClosedError
C3_Witness ==
    /\ ret.op = "recv" /\ ret.val = ChannelClosedError
    /\ Len(rcvd[1]) >= 2
    /\ rcvd[1] = sent[1]
    /\ \E h \in 1..Len(senders) : Len(senders[h].log) < Len(sent[1])

\* C4: a send call returns BrokenPipeError exactly when the receiving
\* resource of the channel had been released before the call, and then the
\* queue is left as it was; otherwise it returns Ok and the queue is the old
\* queue with the message appended at its tail, whatever its length; the
\* enqueue never waits and send has no other outcome.
C4_SendOutcome ==
    /\ [](ret.op = "send" =>
             /\ ret.val \in {Ok, BrokenPipeError}
             /\ ret.val = BrokenPipeError <=> ~ret.pre.held)
    /\ [](\A h \in 1..Len(senders) :
             senders[h].pending # None => ENABLED send_enqueue(h))
    /\ [][ret'.op = "send" =>
             IF ret'.val = BrokenPipeError
             THEN queue' = queue
             ELSE queue' = [queue EXCEPT ![ret'.chan] = Append(@, ret'.msg[1])]]_vars

\* a send call returned Ok on a queue that held a message, the receiver was
\* dropped while a send call of a clone was on its way, and the next send
\* call failed with BrokenPipeError
C4_Witness ==
    /\ ret.op = "send" /\ ret.val = BrokenPipeError
    /\ Len(queue[1]) >= 1
    /\ \E h \in 1..Len(senders) : senders[h].pending # None

\* C5: the disconnection flag of a channel is false exactly while some handle
\* holds the channel's receiving resource and true once that handle was
\* dropped; it is never reset; consume, add and the drop of an emptied handle
\* leave it as it is, the drop of the holding handle sets it, and a send call
\* that starts while the resource is held returns Ok.
C5_DisconnectFlag ==
    /\ [](\A c \in Channels : is_disconnected[c] <=> Holders(Heap, c) = {})
    /\ [](ret.op = "send" /\ ret.pre.held => ret.val = Ok)
    /\ [][\A c \in Chan : is_disconnected[c] => is_disconnected'[c]]_vars
    /\ [][ret'.op \in {"consume", "add"} => is_disconnected' = is_disconnected]_vars
    /\ [][\A r \in 1..Len(receivers) :
            (ret'.op = "drop_receiver" /\ ret'.obj = r /\ receivers'[r] # receivers[r]) =>
                IF receivers[r].inner = None
                THEN is_disconnected' = is_disconnected
                ELSE is_disconnected'[receivers[r].inner[1]]]_vars

\* the receiver was consumed, the emptied handle dropped, the new handle added
\* to the receiver set, and the first send call, made after all that, found
\* the flag false and goes on to enqueue its message
C5_Witness ==
    /\ ret.op = "send_check" /\ ret.val = Ok
    /\ calls.consume >= 1
    /\ receivers[1].owner = "dropped"
    /\ Len(rset.receivers) >= 1
    /\ calls.send = 1
    /\ ~is_disconnected[1]

\* C6: try_recv never waits; with an empty queue and a live Sender it returns
\* UnknownError and changes nothing, with a message buffered it returns the
\* head of the queue and removes it, with an empty queue and no Sender left
\* it returns ChannelClosedError.
C6_TryRecv ==
    /\ [](\A r \in 1..Len(receivers) : UserReceiver(r) => ENABLED try_recv(r))
    /\ [](ret.op = "try_recv" /\ ret.val # Panic =>
             IF ret.pre.queue # <<>>
             THEN ret.val = Ok /\ ret.msg = Some(Head(ret.pre.queue))
             ELSE IF ret.pre.senders > 0
                  THEN ret.val = UnknownError
                  ELSE ret.val = ChannelClosedError)
    /\ [][ret'.op = "try_recv" =>
             /\ ret'.pre.queue = queue[ret'.chan]
             /\ IF ret'.val = Ok
                THEN queue' = [queue EXCEPT ![ret'.chan] = Tail(@)]
                ELSE UNCHANGED <<heapVars, serverVars, rset, sent, rcvd, calls, added>>]_vars

\* try_recv returned UnknownError on an empty queue, a message was sent and
\* the next try_recv returned it
C6_Witness ==
    /\ ret.op = "try_recv" /\ ret.val = UnknownError
    /\ Len(rcvd[1]) >= 1
    /\ queue[1] = <<>>
    /\ SenderCount(1) >= 2

\* the entry of a name is gone from the registry
Absent(name) == ONE_SHOT_SERVERS[name] = None

\* C7: every Sender connect(n) hands out is bound to the channel new() made
\* for the server named n; when accept has returned, the message it returned
\* is the first message sent on that channel, the Receiver it returned is the
\* receiving end of that channel, and the messages received from it so far,
\* that first one included, followed by the messages still buffered are the
\* messages sent, in order.
C7_AcceptFirstMessage ==
    /\ \A n \in 1..Len(servers) :
         servers[n].pc = "accepted" =>
            LET r == servers[n].receiver
            IN  /\ receivers[r].owner = "user"
                /\ receivers[r].inner # None
                /\ receivers[r].inner = Some(servers[n].chan)
                /\ LET c == receivers[r].inner[1]
                   IN  /\ rcvd[c] # <<>>
                       /\ rcvd[c][1] = sent[c][1]
                       /\ rcvd[c] \o queue[c] = sent[c]
                       /\ \A h \in 1..Len(senders) :
                            senders[h].owner \in {"user", "connect"} =>
                                senders[h].chan = c
    /\ (ret.op = "accept" /\ ret.val = Ok) =>
            /\ ret.chan = servers[ret.obj].chan
            /\ ret.msg = Some(sent[ret.chan][1])
            /\ rcvd[ret.chan] = <<sent[ret.chan][1]>>
    /\ (ret.op \in {"connect", "connect_lookup"} /\ ret.val = Ok) =>
            ret.chan = servers[ret.obj].chan

\* a party connected and sent two different messages, accept returned and the
\* Receiver it returned got the second message by recv
C7_Witness ==
    /\ servers[1].pc = "accepted"
    /\ ret.op = "recv" /\ ret.val = Ok /\ ret.obj = servers[1].receiver
    /\ Len(rcvd[1]) >= 2
    /\ rcvd[1][1] # rcvd[1][2]
    /\ rcvd[1] = sent[1]

\* C8: a connect call on a name that was never published, or whose server's
\* accept has returned, ends at once with a panic: it returns no Sender,
\* creates none and does not stay on its way.
C8_ConnectRejected ==
    [][calls'.connect # calls.connect =>
         LET name == ret'.obj
         IN  (name \notin Published
                \/ \E n \in 1..Len(servers) :
                     servers[n].name = name /\ servers[n].pc = "accepted") =>
             /\ ret'.op = "connect" /\ ret'.val = Panic
             /\ senders' = senders
             /\ connects' = connects]_vars

\* after accept returned its first message, a connect on the server's name
\* panicked
C8_Witness ==
    /\ servers[1].pc = "accepted"
    /\ ret.op = "connect" /\ ret.val = Panic /\ ret.obj = 1
    /\ calls.connect = 2
    /\ calls.signal = 1

\* C9: the name of a server is in the registry from new() until the server's
\* accept, having got a signal, removes it; nothing else removes it, no entry
\* is ever inserted again, and a connect that starts after the removal finds no
\* entry and panics.
C9_SingleUse ==
    /\ [](\A n \in 1..Len(servers) :
            Absent(servers[n].name) <=>
                servers[n].pc \in {"receiving", "accepted", "failed"})
    /\ [][\A name \in Names : Absent(name) => Absent(name)']_vars
    /\ [][\A n \in 1..Len(servers) :
            (~Absent(servers[n].name) /\ Absent(servers[n].name)') =>
                /\ ret'.op = "accept_remove" /\ ret'.obj = n
                /\ servers[n].pc = "signalled"
                /\ servers'[n].pc = "receiving"]_vars
    /\ [][(calls'.connect # calls.connect /\ Absent(ret'.obj)) =>
            /\ ret'.op = "connect" /\ ret'.val = Panic
            /\ senders' = senders
            /\ connects' = connects]_vars

\* accept has removed the entry and waits for the first message, and a connect
\* that started after the removal found no entry
C9_Witness ==
    /\ servers[1].pc = "receiving"
    /\ Absent(1)
    /\ ret.op = "connect" /\ ret.val = Panic /\ ret.obj = 1

\* C10: accept gets past its wait only by taking a signal a connect has sent,
\* removes the registry entry only after that and receives the first message
\* only after the removal; while no connect has been called, an accept that
\* has started stays at its wait with the entry in the registry.
C10_AcceptOrder ==
    /\ [](\A n \in 1..Len(servers) :
            (servers[n].pc \in {"signalled", "receiving", "accepted", "failed"}
                \/ Absent(servers[n].name)) => calls.signal >= 1)
    /\ [](\A n \in 1..Len(servers) :
            (calls.connect = 0 /\ servers[n].pc \notin {"new", "dropped"}) =>
                /\ servers[n].pc = "waiting"
                /\ ~Absent(servers[n].name)
                /\ ~ENABLED accept_wait(n))
    /\ [][\A n \in 1..Len(servers) :
            servers'[n].pc # servers[n].pc =>
                \/ servers'[n].pc \in {"panicked", "dropped", "failed"}
                \/ /\ servers[n].pc = "new" /\ servers'[n].pc = "waiting"
                \/ /\ servers[n].pc = "waiting" /\ servers'[n].pc = "signalled"
                   /\ conn[n] > 0 /\ conn'[n] = conn[n] - 1
                   /\ ~Absent(servers[n].name)'
                \/ /\ servers[n].pc = "signalled" /\ servers'[n].pc = "receiving"
                   /\ Absent(servers[n].name)' /\ rcvd' = rcvd
                \/ /\ servers[n].pc = "receiving" /\ servers'[n].pc = "accepted"
                   /\ Absent(servers[n].name)
                   /\ ret'.op = "accept" /\ ret'.val = Ok
                   /\ rcvd'[ret'.chan] = Append(rcvd[ret'.chan], ret'.msg[1])]_vars

\* a message was sent before accept started; accept took the signal, removed
\* the entry and then returned that message
C10_Witness ==
    /\ servers[1].pc = "accepted"
    /\ ret.op = "accept" /\ ret.val = Ok
    /\ Absent(1)
    /\ calls.signal = 2
    /\ conn[1] = 1

\* the server published under a name
ServerOf(name) == CHOOSE n \in 1..Len(servers) : servers[n].name = name

\* C11: while the entry of a name is in the registry and no registry call has
\* panicked, every connect on that name goes through wherever the server's
\* accept stands, suspended at its wait included: the lookup is never blocked,
\* it yields a new Sender of the channel new() made for the server, the signal
\* is never blocked however many signals are buffered already, and the call
\* returns that Sender; a connect or accept call panics only on an absent
\* entry or a poisoned registry lock, never because of buffered signals.
C11_ConcurrentConnect ==
    /\ [](\A name \in Names :
            (calls.connect < MaxConnects) => ENABLED connect(name))
    /\ [](\A k \in connects : ENABLED connect_signal(k))
    /\ [][(calls'.connect # calls.connect /\ ~poisoned /\ ~Absent(ret'.obj)) =>
            /\ ret'.op = "connect_lookup" /\ ret'.val = Ok
            /\ ret'.chan = servers[ServerOf(ret'.obj)].chan
            /\ Len(senders') = Len(senders) + 1
            /\ senders'[Len(senders')].chan = ret'.chan
            /\ [name |-> ret'.obj, sender |-> Len(senders')] \in connects'
            /\ UNCHANGED <<conn, servers, ONE_SHOT_SERVERS>>]_vars
    /\ [][\A k \in connects : k \notin connects' =>
            /\ ret'.op = "connect" /\ ret'.val = Ok /\ ret'.obj = k.name
            /\ conn'[k.name] = conn[k.name] + 1
            /\ senders'[k.sender].owner = "user"
            /\ senders'[k.sender].chan = servers[ServerOf(k.name)].chan
            /\ ret'.chan = senders'[k.sender].chan]_vars
    /\ [][(ret'.val = Panic /\ ret'.op = "connect") =>
            (poisoned \/ Absent(ret'.obj))]_vars
    /\ [][(ret'.val = Panic /\ ret'.op = "accept") =>
            (poisoned \/ Absent(servers[ret'.obj].name))]_vars

\* two connect calls were made on the server's name, both signalled while the
\* server's accept was suspended at its wait, so two signals are buffered
C11_Witness ==
    /\ servers[1].pc = "waiting"
    /\ ret.op = "connect" /\ ret.val = Ok /\ ret.obj = 1
    /\ calls.connect = 2
    /\ conn[1] = 2
    /\ Cardinality({h \in LiveSenders(Heap, 1) : senders[h].owner = "user"}) = 2

\* the ids of the receivers registered now
RegisteredIds == {rset.receiver_ids[i] : i \in 1..Len(rset.receiver_ids)}

\* C12: the k-th call of add, counting from 0, returns the id k whatever
\* select calls came before it; the ids in the set are strictly increasing and
\* pairwise distinct, every id handed out is below the counter, and an id
\* that select removed with a ChannelClosed event is never registered again.
C12_AddIds ==
    /\ [](/\ rset.incrementor = calls.add
          /\ Len(added) = calls.add
          /\ Len(rset.receiver_ids) = Len(rset.receivers)
          /\ \A i \in 1..Len(rset.receiver_ids) :
                /\ rset.receiver_ids[i] < rset.incrementor
                /\ \A j \in 1..Len(rset.receiver_ids) :
                      i < j => rset.receiver_ids[i] < rset.receiver_ids[j])
    /\ [][calls'.add # calls.add =>
            /\ ret'.op = "add" /\ ret'.val = Ok
            /\ ret'.id = calls.add
            /\ rset'.receiver_ids = Append(rset.receiver_ids, ret'.id)
            /\ \A id \in RegisteredIds : id < ret'.id]_vars
    /\ [][\A id \in 0..MaxAdds :
            (id < rset.incrementor /\ id \notin RegisteredIds) =>
                id \notin RegisteredIds']_vars

\* the receiver with id 0 was removed by a ChannelClosed event and the set was
\* empty; the next call of add returned the id 1, not 0
C12_Witness ==
    /\ ret.op = "add" /\ ret.id = 1
    /\ rset.receiver_ids = <<1>>
    /\ Len(rset.receivers) = 1

\* C13: a select call on a set that holds no receiver returns UnknownError in
\* the step it starts with and changes nothing, be the set new or emptied by
\* ChannelClosed events; select never waits on an empty set and returns
\* UnknownError on no other set.
C13_SelectEmpty ==
    /\ [](~rset.selecting => ENABLED select)
    /\ [](rset.selecting => rset.receivers # <<>>)
    /\ [][(~rset.selecting /\ ret'.op \in {"select", "select_wait"}
                /\ rset.receivers = <<>>) =>
            /\ ret'.op = "select" /\ ret'.val = UnknownError
            /\ UNCHANGED <<heapVars, serverVars, rset, sent, rcvd, calls, added>>]_vars
    /\ [][(ret'.op = "select" /\ ret'.val = UnknownError) =>
            rset.receivers = <<>>]_vars

\* two receivers were added, both were removed by ChannelClosed events, and
\* the next select call on the emptied set returned UnknownError
C13_Witness ==
    /\ ret.op = "select" /\ ret.val = UnknownError
    /\ calls.add = 2
    /\ rset.receivers = <<>>
    /\ rset.incrementor = 2

\* a step in which a select call returns an event
SelectReturns == rset.selecting /\ ~rset'.selecting

\* C14: a select call that returns from its wait returns one event, either
\* DataReceived or ChannelClosed, for an id registered in the set; a
\* DataReceived(id) event carries the head of the queue of the channel whose
\* receiver the call of add that returned id registered, takes that message
\* off the queue and leaves the receivers of the set, their ids and the
\* counter as they were; every id in the set stays with the receiver add
\* gave it, also after entries before it were removed.
C14_DataReceived ==
    /\ [](\A i \in 1..Len(rset.receivers) :
            LET a == added[rset.receiver_ids[i] + 1]
            IN  /\ rset.receivers[i] = a.handle
                /\ receivers[a.handle].inner = a.inner)
    /\ [][SelectReturns =>
            /\ ret'.op = "select"
            /\ ret'.val \in {DataReceived, ChannelClosed}
            /\ ret'.id \in RegisteredIds]_vars
    /\ [][(SelectReturns /\ ret'.val = DataReceived) =>
            LET a == added[ret'.id + 1]
                c == ret'.chan
            IN  /\ a.inner = Some(c)
                /\ queue[c] # <<>>
                /\ ret'.msg = Some(Head(queue[c]))
                /\ queue' = [queue EXCEPT ![c] = Tail(@)]
                /\ rset' = [rset EXCEPT !.selecting = FALSE]]_vars

\* the receiver with id 0 was removed by a ChannelClosed event; the receiver
\* with id 1, now the first of the set, got two messages and select returned
\* DataReceived(1) with the second one
C14_Witness ==
    /\ ret.op = "select" /\ ret.val = DataReceived /\ ret.id = 1
    /\ rset.receiver_ids = <<1>>
    /\ Len(rcvd[ret.chan]) = 2
    /\ ret.msg = Some(sent[ret.chan][2])

\* the ids add has handed out that are no longer registered
RemovedIds == {id \in 0..(rset.incrementor - 1) : id \notin RegisteredIds}

\* C15: a select call returns ChannelClosed(id) for a registered receiver
\* whose queue is empty and whose senders are all gone, and removes that
\* receiver and its id from the set, leaving every other receiver with its id,
\* its place in the order and its buffered messages; an id once removed is
\* never registered again and no later select call returns an event for it;
\* a waiting select call can return for every registered receiver that is
\* ready, so the others still get their messages and their closure reported.
C15_ChannelClosed ==
    /\ [](rset.selecting =>
            \A i \in ReadyIndexes : ENABLED select_return(i))
    /\ [][(SelectReturns /\ ret'.val = ChannelClosed) =>
            LET id == ret'.id
                c == ret'.chan
                i == ret'.obj
            IN  /\ rset.receiver_ids[i] = id
                /\ added[id + 1].inner = Some(c)
                /\ queue[c] = <<>> /\ SenderCount(c) = 0
                /\ id \notin RegisteredIds'
                /\ rset'.receiver_ids = RemoveAt(rset.receiver_ids, i)
                /\ rset'.receivers = RemoveAt(rset.receivers, i)
                /\ receivers'[rset.receivers[i]].inner = None
                /\ \A j \in 1..Len(rset.receivers) : j # i =>
                      /\ receivers'[rset.receivers[j]] = receivers[rset.receivers[j]]
                      /\ queue'[SetChan(j)[1]] = queue[SetChan(j)[1]]]_vars
    /\ [][\A id \in RemovedIds :
            /\ id \notin RegisteredIds'
            /\ ~(SelectReturns /\ ret'.id = id)]_vars

\* of two registered receivers the first lost its only sender: select returned
\* ChannelClosed(0); the second then had a message reported under its id 1
\* and, its sender gone too, its closure
C15_Witness ==
    /\ ret.op = "select" /\ ret.val = ChannelClosed /\ ret.id = 1
    /\ RemovedIds = {0, 1}
    /\ rcvd[added[1].inner[1]] = <<>>
    /\ Len(rcvd[added[2].inner[1]]) >= 1

\* the i-th receiver of the set has a message buffered, or an empty queue
\* and no sender left
IsReady(i) ==
    /\ i \in 1..Len(rset.receivers)
    /\ SetChan(i) # None
    /\ \/ queue[SetChan(i)[1]] # <<>>
       \/ SenderCount(SetChan(i)[1]) = 0

\* C16: a select call returns from its wait only for a registered receiver
\* whose queue held a message or whose queue was empty with every sender
\* gone, and reports which of the two it found; a select call that waits
\* returns once some registered receiver, whichever, is ready.
C16_SelectReady ==
    /\ [][SelectReturns =>
            LET i == ret'.obj
            IN  /\ i \in 1..Len(rset.receivers)
                /\ SetChan(i) = Some(ret'.chan)
                /\ Ready(ret'.chan)
                /\ ret'.val = DataReceived <=> queue[ret'.chan] # <<>>
                /\ ret'.val = ChannelClosed <=>
                      (queue[ret'.chan] = <<>> /\ SenderCount(ret'.chan) = 0)]_vars
    /\ [](rset.selecting =>
            \A i \in 1..Len(rset.receivers) :
                ENABLED select_return(i) => IsReady(i))
    /\ \A k \in 1..MaxAdds :
          (rset.selecting /\ IsReady(k)) ~> ~rset.selecting

\* a select call waited on two receivers, neither of them ready, until a
\* message reached the queue of the second one
C16_Witness ==
    /\ rset.selecting
    /\ Len(rset.receivers) = 2
    /\ IsReady(2) /\ ~IsReady(1)
    /\ ret.op = "send" /\ ret.val = Ok
    /\ SetChan(2) = Some(ret.chan)
    /\ queue[ret.chan] = <<ret.msg[1]>>

\* who owns an endpoint now
OwnerOf(H, p) ==
    IF p.kind = "Sender" THEN H.senders[p.id].owner ELSE H.receivers[p.id].owner

Accessors == {"to_receiver", "to_sender"}

\* the direction an accessor asks for
KindOf(op) == IF op = "to_receiver" THEN "Receiver" ELSE "Sender"

\* C17: to_receiver on a slot that holds a Receiver and to_sender on a slot
\* that holds a Sender return the endpoint the slot holds and empty the slot;
\* an emptied slot is never filled again; the mismatched accessor and either
\* accessor on an emptied slot panic, leave the slot empty and hand no
\* endpoint to the caller; an endpoint in a slot belongs to nobody else and
\* to no second slot, so no endpoint is handed out twice.
C17_MoveOnce ==
    /\ [](\A o \in 1..Len(opaques) :
            opaques[o].channel # None =>
                /\ opaques[o].live
                /\ opaques[o].channel = Some(opaques[o].made)
                /\ OwnerOf(Heap, opaques[o].made) = "opaque"
                /\ \A o2 \in 1..Len(opaques) :
                      (o2 # o /\ opaques[o2].channel # None) =>
                          opaques[o2].channel # opaques[o].channel)
    /\ [][\A o \in 1..Len(opaques) :
            opaques[o].channel = None => opaques'[o].channel = None]_vars
    /\ [][ret'.op \in Accessors =>
            LET o == ret'.obj
            IN  /\ opaques'[o].channel = None
                /\ IF opaques[o].channel # None
                       /\ opaques[o].channel[1].kind = KindOf(ret'.op)
                   THEN /\ ret'.val = Ok
                        /\ ret'.id = opaques[o].channel[1].id
                        /\ OwnerOf([senders |-> senders', receivers |-> receivers'],
                                   opaques[o].channel[1]) = "user"
                   ELSE /\ ret'.val = Panic
                        /\ \A h \in 1..Len(senders) :
                              senders'[h].owner = "user" => senders[h].owner = "user"
                        /\ \A r \in 1..Len(receivers) :
                              receivers'[r].owner = "user" =>
                                  receivers[r].owner = "user"]_vars

\* to_receiver returned the Receiver a message carried, and a second
\* to_receiver on the same wrapper panicked; the caller still has the Receiver
C17_Witness ==
    /\ ret.op = "to_receiver" /\ ret.val = Panic
    /\ opaques[ret.obj].made.kind = "Receiver"
    /\ OwnerOf(Heap, opaques[ret.obj].made) = "user"
    /\ opaques[ret.obj].channel = None

\* the results that hand a message to the caller
Delivered == {Ok, DataReceived}

DeliveryOps == {"recv", "try_recv", "select", "accept"}

\* the handle that holds the receiving end of channel c is inside a message
\* or inside an opaque endpoint
InTransit(c) ==
    \E r \in 1..Len(receivers) :
        receivers[r].inner = Some(c) /\ receivers[r].owner \in {"msg", "opaque"}

\* C18: recv, try_recv, select and accept hand out the head of the queue as
\* its sender passed it to send, and append to the opaque endpoints one
\* wrapper per endpoint of that message, in the message's order, each holding
\* that endpoint, Sender or Receiver as sent; a Receiver inside a message or a
\* wrapper keeps its channel, the channel's flag stays false, a send call that
\* starts then is accepted, and on every channel the messages received
\* followed by those buffered are the messages sent, in order.
C18_EndpointTransfer ==
    /\ [][(ret'.op \in DeliveryOps /\ ret'.val \in Delivered) =>
            LET c == ret'.chan
                m == ret'.msg[1]
                n == Len(m.ports)
            IN  /\ queue[c] # <<>>
                /\ m = Head(queue[c])
                /\ \E j \in 1..Len(senders[m.by].log) : senders[m.by].log[j] = m
                /\ Len(opaques') = Len(opaques) + n
                /\ SubSeq(opaques', 1, Len(opaques)) = opaques
                /\ \A k \in 1..n :
                      LET w == opaques'[Len(opaques) + k]
                      IN  /\ w.channel = Some(m.ports[k])
                          /\ w.live
                          /\ w.channel[1].kind = m.ports[k].kind]_vars
    /\ [](\A c \in Channels : InTransit(c) => ~is_disconnected[c])
    /\ [][\A r \in 1..Len(receivers) :
            receivers[r].owner \in {"msg", "opaque"} =>
                \/ receivers'[r].inner = receivers[r].inner
                \/ receivers'[r].owner = "dropped"]_vars
    /\ [][(calls'.send # calls.send /\ InTransit(ret'.chan)) =>
            ret'.op = "send_check" /\ ret'.val = Ok]_vars
    /\ [](\A c \in Channels :
            /\ IsPrefix(rcvd[c], sent[c])
            /\ ~Freed(Heap, c) => rcvd[c] \o queue[c] = sent[c])

\* the first message, returned by accept, carried the Sender and the Receiver
\* of the second channel, in that order; both were taken out of their wrappers
\* and the two messages sent on the second channel were received, in the
\* order sent, through that Receiver
C18_Witness ==
    /\ servers[1].pc = "accepted"
    /\ Len(opaques) = 2
    /\ opaques[1].made = Sender(3) /\ opaques[1].channel = None
    /\ opaques[2].made = Receiver(2) /\ opaques[2].channel = None
    /\ ret.op = "recv" /\ ret.val = Ok /\ ret.obj = 2
    /\ Len(rcvd[2]) = 2
    /\ rcvd[2] = sent[2]
    /\ rcvd[2][1] # rcvd[2][2]

\* the accept call of server n is on its way
Accepting(n) ==
    /\ n \in 1..Len(servers)
    /\ servers[n].pc \in {"waiting", "signalled", "receiving"}

\* the Senders of the server's channel that connect calls returned, or are
\* about to return, and that are not dropped
Connected(n) ==
    IF n \in 1..Len(servers)
    THEN {h \in LiveSenders(Heap, servers[n].chan) :
             senders[h].owner \in {"user", "connect"}}
    ELSE {}

\* a connect has signalled and a message was sent on the server's channel
FirstSent(n) ==
    /\ Accepting(n)
    /\ calls.signal >= 1
    /\ sent[servers[n].chan] # <<>>

\* a connect has signalled, no message was sent and every Sender connect
\* returned is dropped
Abandoned(n) ==
    /\ Accepting(n)
    /\ calls.signal >= 1
    /\ sent[servers[n].chan] = <<>>
    /\ Connected(n) = {}

\* C19: once a connect has signalled, an accept call on its way returns the
\* first message if one was sent on the server's channel, and fails with
\* ChannelClosedError if every Sender connect returned was dropped with no
\* message sent (unless a later connect hands out another Sender).
C19_AcceptTerminates ==
    \A n \in Names :
        /\ FirstSent(n) ~> ServerAt(n, "accepted")
        /\ Abandoned(n) ~> (ServerAt(n, "failed") \/ Connected(n) # {})

\* accept has removed the entry and waits for the first message; the only
\* Sender connect returned is dropped and nothing was sent, yet the channel
\* still has a Sender: the one in the record accept cloned at lines 273-278
C19_Witness ==
    /\ servers[1].pc = "receiving"
    /\ Abandoned(1)
    /\ Absent(1)
    /\ calls.connect >= 1
    /\ servers[1].record # None
    /\ LiveSenders(Heap, 1) = {servers[1].record[1]}
    /\ ~Ready(1)

\* C20: once accept has returned its first message, the Sender the registry
\* held and the Sender in the record accept cloned are dropped and stay
\* dropped: every live Sender of the server's channel is one a connect call
\* handed out or a clone of one; when none of them is left and the queue is
\* empty, recv on the Receiver accept returned does not wait and returns
\* ChannelClosedError.
C20_ClosedAfterAccept ==
    /\ [](\A n \in 1..Len(servers) :
            servers[n].pc = "accepted" =>
                /\ servers[n].record = None
                /\ Absent(servers[n].name)
                /\ \A h \in LiveSenders(Heap, servers[n].chan) :
                      senders[h].owner \in {"user", "connect"}
                /\ LET r == servers[n].receiver
                   IN  (UserReceiver(r) /\ queue[servers[n].chan] = <<>>
                           /\ LiveSenders(Heap, servers[n].chan) = {}) =>
                       ENABLED recv(r))
    /\ [][(ret'.op = "recv" /\ ret'.val # Panic
             /\ ServerAt(1, "accepted") /\ ret'.obj = servers[1].receiver
             /\ queue[ret'.chan] = <<>>
             /\ LiveSenders(Heap, ret'.chan) = {}) =>
            ret'.val = ChannelClosedError]_vars

\* accept returned the first message; a clone of the Sender connect returned
\* sent a second one; the Senders were dropped, the Receiver accept returned
\* got the second message and its next recv failed with ChannelClosedError
C20_Witness ==
    /\ servers[1].pc = "accepted"
    /\ ret.op = "recv" /\ ret.val = ChannelClosedError
    /\ ret.obj = servers[1].receiver
    /\ calls.clone = 1
    /\ Len(rcvd[1]) = 2
    /\ rcvd[1][1].by # rcvd[1][2].by

====
